---- MODULE Spec2Model ----
(***************************************************************************)
(* Model of the Hyperliquid funding-rate arbitrage bot (src/main.py).      *)
(*                                                                         *)
(* Numbers.  The program computes with binary floats.  The model keeps     *)
(* rates and prices as exact integers, and for the order size follows the  *)
(* float: 1000 / mark_price is the exact quotient rounded to a 53-bit      *)
(* mantissa, and FloatError gives the side on which the float lies, which  *)
(* is what decides the digits of a size half-way between two roundings:    *)
(*   - a raw funding rate is an integer count of 1e-6 (0.001 is 1000);     *)
(*   - an annualized rate and min_funding_rate are integer counts of 1e-6  *)
(*     percent (36.5 % is 36500000, the configured 0.05 is 50000);         *)
(*   - a mark price is a whole number of dollars;                          *)
(*   - an order price is an integer count of 1/1000 dollar;                *)
(*   - token_amount is the rational num/den, the float nearest to it       *)
(*     being known by FloatError(num, den);                                *)
(*   - a formatted size is the pair (digits, decimals): the decimal        *)
(*     string whose value is digits * 10^-decimals.                        *)
(* Names (symbols, instrument names) are sequences of tokens, so that      *)
(* "BTC/USDC" is <<"BTC", "/", "USDC">> and split('/') is computed.        *)
(***************************************************************************)
EXTENDS Integers, Sequences, FiniteSets, TLC

VARIABLES
    pc,                 \* position of main(): startup, fatal, fetch, scan,
                        \* sleep_empty (line 261), sleep (line 287), stopped
    markets,            \* bot.markets: symbol -> Market
    active_positions,   \* bot.active_positions: symbol -> position
    opportunities,      \* the list returned by get_funding_opportunities
    cursor,             \* index of the next opp of the for loop at line 269
    attempted,          \* indexes of the opps handed to execute_funding_arb
                        \* in the current cycle, in call order
    call,               \* the last execute_funding_arb call of this cycle:
                        \* the orders that reached the exchange with its
                        \* answers, whether the call returned, and its result
    feed_status,        \* how the last get_funding_opportunities ended:
                        \* ok, transport_error, parse_error, interrupted
    startup_env,        \* what the constructor finds: the credentials and
                        \* the exchange's answers to 'meta' and 'spotMeta'
    snapshot,           \* the quote snapshot the last feed call received
    feed_called,        \* get_funding_opportunities was called at least once
    waited,             \* seconds slept since the last feed call
    exposure            \* the exchange's book, per symbol: accepted spot
                        \* buys less accepted perp sells and unwind sells
                        \* (kept in the runs of ExposureSpec)

vars == <<pc, markets, active_positions, opportunities, cursor, attempted,
          call, feed_status, startup_env, snapshot, feed_called, waited,
          exposure>>

----------------------------------------------------------------------------
(* Bounds of the model *)

MaxSnap == 2            \* longest quote snapshot the exchange returns
MaxPerps == 2           \* longest perpetual list of the catalog runs
MaxSpots == 2           \* longest spot list of the catalog runs
MaxExposure == 2        \* the exchange accepts no spot buy that would leave
                        \* more than this many unhedged buys of one symbol

(* Program constants *)

min_funding_rate == 50000       \* 0.05, in 1e-6 percent (main.py:250)
position_size_usd == 1000       \* main.py:251
max_slippage_milli == 1         \* 0.001, in thousandths (main.py:252)
SpotIdOffset == 10000           \* main.py:78
DaysPerYear == 365              \* main.py:105
Percent == 100                  \* main.py:105
MantissaBits == 53              \* a Python float is an IEEE 754 double
SleepInterval == 60             \* main.py:261 and main.py:287
DocumentedMinimum == 5000000    \* "5% APR minimum", in 1e-6 percent (main.py:250)

----------------------------------------------------------------------------
(* Helpers *)

Abs(x) == IF x < 0 THEN -x ELSE x

RECURSIVE Pow10(_)
Pow10(d) == IF d = 0 THEN 1 ELSE 10 * Pow10(d - 1)

BTC == <<"BTC">>
ETH == <<"ETH">>
SOL == <<"SOL">>

----------------------------------------------------------------------------
(* Market Catalog: Market (lines 22-29), initialize_markets (lines 54-86) *)

EmptyDict == << >>

Put(dict, key, value) ==
    [k \in DOMAIN dict \cup {key} |-> IF k = key THEN value ELSE dict[k]]

\* Market(symbol, perp_asset_id, spot_asset_id, size_decimals): the quotes
\* start at their dataclass defaults 0.0
Market(symbol, perp_asset_id, spot_asset_id, size_decimals) ==
    [symbol |-> symbol,
     perp_asset_id |-> perp_asset_id,
     spot_asset_id |-> spot_asset_id,
     funding_rate |-> 0,
     mark_price |-> 0,
     size_decimals |-> size_decimals]

\* name.split('/')[0]: the tokens before the first "/"
RECURSIVE SplitFirst(_)
SplitFirst(name) ==
    IF name = << >> \/ Head(name) = "/" THEN << >>
    ELSE <<Head(name)>> \o SplitFirst(Tail(name))

\* the inner for loop without its break: the last match wins
RECURSIVE FindSpot_NoBreak(_, _, _)
FindSpot_NoBreak(spots, symbol, j) ==
    IF j > Len(spots) THEN 0
    ELSE LET later == FindSpot_NoBreak(spots, symbol, j + 1)
         IN IF later # 0 THEN later
            ELSE IF SplitFirst(spots[j].name) = symbol THEN j
            ELSE 0

\* the inner for loop, lines 69-72: index of the first spot instrument whose
\* base name is the symbol, 0 when there is none (spot_info stays None)
RECURSIVE FindSpot(_, _, _)
FindSpot(spots, symbol, j) ==
    IF j > Len(spots) THEN 0
    ELSE IF SplitFirst(spots[j].name) = symbol THEN j
    ELSE FindSpot(spots, symbol, j + 1)

\* the outer for loop, lines 64-80, from the i-th perpetual on
RECURSIVE MapMarkets(_, _, _, _)
MapMarkets(mk, perps, spots, i) ==
    IF i > Len(perps) THEN mk
    ELSE LET perp == perps[i]
             symbol == perp.name
             j == FindSpot(spots, symbol, 1)
         IN IF j # 0
            THEN MapMarkets(
                     Put(mk, symbol,
                         Market(symbol, i - 1, SpotIdOffset + spots[j].index,
                                perp.szDecimals)),
                     perps, spots, i + 1)
            ELSE MapMarkets(mk, perps, spots, i + 1)

initialize_markets(perp_universe, spot_universe) ==
    MapMarkets(EmptyDict, perp_universe, spot_universe, 1)

\* What the exchange answers to 'meta' and 'spotMeta' at startup
PerpMetas ==
    { << [name |-> BTC, szDecimals |-> 3], [name |-> ETH, szDecimals |-> 1] >>,
      << [name |-> SOL, szDecimals |-> 2], [name |-> BTC, szDecimals |-> 3] >> }

SpotMetas ==
    { << [name |-> <<"PURR", "/", "USDC">>, index |-> 0],
         [name |-> <<"BTC", "/", "USDC">>, index |-> 5],
         [name |-> <<"ETH", "/", "USDC">>, index |-> 2],
         [name |-> <<"BTC", "/", "USDT">>, index |-> 7] >>,
      << [name |-> <<"U", "BTC", "/", "USDC">>, index |-> 1],
         [name |-> <<"BTC", "/", "USDC">>, index |-> 5] >> }

\* What the constructor finds at startup: whether both credentials are set
\* (line 41) and, for each of the two catalog requests, whether it succeeds
\* and the universe it returns
StartupEnv(credentials, perp_ok, perp, spot_ok, spot) ==
    [credentials |-> credentials, perp_ok |-> perp_ok, perp |-> perp,
     spot_ok |-> spot_ok, spot |-> spot]

FailingEnvs(perp, spot) ==
    { StartupEnv(FALSE, TRUE, perp, TRUE, spot),
      StartupEnv(TRUE, FALSE, << >>, TRUE, spot),
      StartupEnv(TRUE, TRUE, perp, FALSE, << >>) }

\* the startups of the trading runs
StartupEnvs ==
    { StartupEnv(TRUE, TRUE, perp, TRUE, spot) :
          perp \in PerpMetas, spot \in SpotMetas }
        \cup UNION { FailingEnvs(perp, spot) :
                         perp \in PerpMetas, spot \in SpotMetas }

\* the startups of the catalog runs: every perpetual list and every spot
\* list up to the bounds, over a few entries (a name may repeat, a spot name
\* may have no "/", two spot instruments may share a base name)
PerpEntries ==
    { [name |-> BTC, szDecimals |-> 3], [name |-> BTC, szDecimals |-> 0],
      [name |-> ETH, szDecimals |-> 1], [name |-> SOL, szDecimals |-> 2] }

SpotEntries ==
    { [name |-> n, index |-> x] :
          n \in { <<"BTC", "/", "USDC">>, <<"BTC", "/", "USDT">>,
                  <<"ETH", "/", "USDC">>, <<"U", "BTC", "/", "USDC">>,
                  <<"SOL">> },
          x \in {1, 5} }

PerpLists == UNION { [1..n -> PerpEntries] : n \in 0..MaxPerps }

SpotLists == UNION { [1..n -> SpotEntries] : n \in 0..MaxSpots }

CatalogEnvs ==
    { StartupEnv(TRUE, TRUE, perp, TRUE, spot) :
          perp \in PerpLists, spot \in SpotLists }
        \cup FailingEnvs(<< >>, << >>)

\* line 41
CredentialsSet(env) == env.credentials

\* lines 58 and 61: neither _make_request raises
CatalogAvailable_Swallowed(env) == TRUE

CatalogAvailable(env) == env.perp_ok /\ env.spot_ok

----------------------------------------------------------------------------
(* Market Data Feed and ranking: get_funding_opportunities (lines 88-121) *)

\* float(ctx['funding']) * 365 * 100
Annualize(funding) == funding * DaysPerYear * Percent

\* key of the sort at line 116
SortKey(opp) == Abs(opp.funding_rate)

\* (variant: an element goes before the elements of equal key)
RECURSIVE InsertOpp_TiesFirst(_, _)
InsertOpp_TiesFirst(sorted, opp) ==
    IF sorted = << >> THEN <<opp>>
    ELSE IF SortKey(Head(sorted)) > SortKey(opp)
         THEN <<Head(sorted)>> \o InsertOpp_TiesFirst(Tail(sorted), opp)
         ELSE <<opp>> \o sorted

\* list.sort(key=..., reverse=True) is stable: an element goes after every
\* element whose key is at least its own
RECURSIVE InsertOpp(_, _)
InsertOpp(sorted, opp) ==
    IF sorted = << >> THEN <<opp>>
    ELSE IF SortKey(Head(sorted)) >= SortKey(opp)
         THEN <<Head(sorted)>> \o InsertOpp(Tail(sorted), opp)
         ELSE <<opp>> \o sorted

RECURSIVE SortOpportunities(_)
SortOpportunities(opps) ==
    IF opps = << >> THEN << >>
    ELSE InsertOpp(SortOpportunities(SubSeq(opps, 1, Len(opps) - 1)),
                   opps[Len(opps)])

\* line 105
UpdateFunding(market, ctx) ==
    [market EXCEPT !.funding_rate = Annualize(ctx.funding)]

\* line 106
UpdatePrice(market, ctx) == [market EXCEPT !.mark_price = ctx.markPx]

\* lines 105-106: the two assignments to the cached Market
UpdateQuote(market, ctx) == UpdatePrice(UpdateFunding(market, ctx), ctx)

\* (variant: the except branch returns what was collected so far)
RECURSIVE ProcessContexts_KeepsPartial(_, _, _, _)
ProcessContexts_KeepsPartial(mk, contexts, i, opps) ==
    IF i > Len(contexts)
    THEN [markets |-> mk, opportunities |-> SortOpportunities(opps),
          status |-> "ok"]
    ELSE LET ctx == contexts[i]
             symbol == ctx.name
         IN IF symbol \notin DOMAIN mk
            THEN ProcessContexts_KeepsPartial(mk, contexts, i + 1, opps)
            ELSE IF ~ctx.funding_ok
            THEN [markets |-> mk, opportunities |-> SortOpportunities(opps),
                  status |-> "parse_error"]
            ELSE IF ~ctx.markPx_ok
            THEN [markets |-> Put(mk, symbol, UpdateFunding(mk[symbol], ctx)),
                  opportunities |-> SortOpportunities(opps),
                  status |-> "parse_error"]
            ELSE LET market == UpdateQuote(mk[symbol], ctx)
                 IN ProcessContexts_KeepsPartial(
                        Put(mk, symbol, market), contexts, i + 1,
                        Append(opps, [symbol |-> symbol,
                                      funding_rate |-> market.funding_rate,
                                      mark_price |-> market.mark_price]))

\* lines 97-113 from the i-th context on, then lines 116-117; a context whose
\* funding (line 105) or markPx (line 106) does not parse raises inside the
\* loop, after the markets of the earlier contexts were updated and, when it
\* is the markPx, after line 105 stored the context's own funding rate;
\* line 121 returns []
RECURSIVE ProcessContexts(_, _, _, _)
ProcessContexts(mk, contexts, i, opps) ==
    IF i > Len(contexts)
    THEN [markets |-> mk, opportunities |-> SortOpportunities(opps),
          status |-> "ok"]
    ELSE LET ctx == contexts[i]
             symbol == ctx.name
         IN IF symbol \notin DOMAIN mk
            THEN ProcessContexts(mk, contexts, i + 1, opps)
            ELSE IF ~ctx.funding_ok
            THEN [markets |-> mk, opportunities |-> << >>,
                  status |-> "parse_error"]
            ELSE IF ~ctx.markPx_ok
            THEN [markets |-> Put(mk, symbol, UpdateFunding(mk[symbol], ctx)),
                  opportunities |-> << >>, status |-> "parse_error"]
            ELSE LET market == UpdateQuote(mk[symbol], ctx)
                 IN ProcessContexts(
                        Put(mk, symbol, market), contexts, i + 1,
                        Append(opps, [symbol |-> symbol,
                                      funding_rate |-> market.funding_rate,
                                      mark_price |-> market.mark_price]))

\* transport_ok = FALSE: _make_request raises at line 92
get_funding_opportunities(mk, transport_ok, contexts) ==
    IF ~transport_ok
    THEN [markets |-> mk, opportunities |-> << >>, status |-> "transport_error"]
    ELSE ProcessContexts(mk, contexts, 1, << >>)

\* What the exchange answers to 'metaAndAssetCtxs': per instrument its name
\* (contexts[0]['universe'][idx]['name']) with its funding and markPx
\* (contexts[1][idx])
Quotes ==
    { [funding |-> 1000, markPx |-> 50000, funding_ok |-> TRUE,
       markPx_ok |-> TRUE],
      [funding |-> 10, markPx |-> 60000, funding_ok |-> TRUE,
       markPx_ok |-> TRUE],
      [funding |-> 100, markPx |-> 80000, funding_ok |-> TRUE,
       markPx_ok |-> TRUE],
      [funding |-> 1, markPx |-> 30000, funding_ok |-> TRUE,
       markPx_ok |-> TRUE],
      [funding |-> -1000, markPx |-> 4000, funding_ok |-> TRUE,
       markPx_ok |-> TRUE],
      [funding |-> 1000, markPx |-> 0, funding_ok |-> TRUE,
       markPx_ok |-> TRUE],
      [funding |-> 0, markPx |-> 0, funding_ok |-> FALSE,
       markPx_ok |-> FALSE],
      [funding |-> 1000, markPx |-> 0, funding_ok |-> TRUE,
       markPx_ok |-> FALSE] }

\* the quotes of the second instrument of a snapshot: enough of them for
\* both orders of two rates, equal absolute rates, a rate below the
\* threshold and a quote that fails after an earlier one was taken in
EthQuotes ==
    { q \in Quotes :
          \/ ~q.funding_ok
          \/ q.markPx_ok /\ q.markPx \in {50000, 4000, 30000} }

\* SOL is in no catalog of the trading runs: line 99 skips it before its
\* quote is read, so one quote stands for all
Context(name, q) ==
    [name |-> name, funding |-> q.funding, markPx |-> q.markPx,
     funding_ok |-> q.funding_ok, markPx_ok |-> q.markPx_ok]

Contexts ==
    { Context(BTC, q) : q \in Quotes }
        \cup { Context(ETH, q) : q \in EthQuotes }
        \cup {[name |-> SOL, funding |-> 1000, markPx |-> 50000,
               funding_ok |-> TRUE, markPx_ok |-> TRUE]}

\* the quotes of a name that a snapshot lists more than once
RepeatQuotes == { q \in Quotes : q.markPx \in {50000, 60000} }

\* lines 97-113 take the list as the exchange returns it: a name may be
\* listed twice, and then both contexts update the one Market of the name
\* and each appends an opportunity.  The snapshots of the runs list BTC
\* twice, over RepeatQuotes, or every name once.
Snapshots ==
    UNION { { s \in [1..n -> Contexts] :
                \A i, j \in 1..n :
                    (i # j /\ s[i].name = s[j].name) =>
                        /\ s[i].name = BTC
                        /\ \E q \in RepeatQuotes : s[i] = Context(BTC, q) } :
            n \in 0..MaxSnap }

----------------------------------------------------------------------------
(* Hedge Execution Engine: execute_funding_arb (lines 123-174),            *)
(* _place_order (lines 176-208), _emergency_close (lines 210-222)          *)

\* What _place_order returns: the "status" of the exchange's JSON answer
\* ("ok", or "err" for any other answer), or "none" when the submission
\* raised and line 208 returned None
Responses == {"ok", "err", "none"}

\* self.position_size_usd / market.mark_price in binary floating point
\* (line 127): the sign of the float's error, float(num / den) - num / den.
\* The quotient is scaled by powers of two into [1, 2), which leaves the
\* rounding as it is; its 53 leading binary digits come out of a long
\* division that keeps the remainder only, and the rest is rounded to
\* nearest, a tie to the even last digit.
RECURSIVE ScaleUp(_, _)
ScaleUp(n, d) == IF n >= d THEN n ELSE ScaleUp(2 * n, d)

RECURSIVE ScaleDown(_, _)
ScaleDown(n, d) == IF n < 2 * d THEN d ELSE ScaleDown(n, 2 * d)

RECURSIVE Mantissa(_, _, _, _)
Mantissa(r, d, last, left) ==
    IF left = 0 THEN [r |-> r, last |-> last]
    ELSE IF 2 * r >= d THEN Mantissa(2 * r - d, d, 1, left - 1)
    ELSE Mantissa(2 * r, d, 0, left - 1)

FloatError(num, den) ==
    LET n == ScaleUp(num, den)
        d == ScaleDown(n, den)
        m == Mantissa(n - d, d, 1, MantissaBits - 1)
    IN IF m.r = 0 THEN 0
       ELSE IF 2 * m.r < d THEN -1
       ELSE IF 2 * m.r > d THEN 1
       ELSE IF m.last = 1 THEN 1 ELSE -1

\* (variant: the digits after the last decimal are cut off)
FormatFixed_Truncates(num, den, decimals) ==
    [digits |-> (num * Pow10(decimals)) \div den, decimals |-> decimals]

\* f"{num/den:.{decimals}f}": the binary float nearest to the quotient,
\* rounded to the given number of decimals.  The float is within 2^-53 of
\* the quotient, so it rounds as the quotient does unless the quotient is an
\* exact tie; a tie goes the way the float's error points, and to the even
\* digit when the float is exact.
FormatFixed(num, den, decimals) ==
    LET scaled == num * Pow10(decimals)
        q == scaled \div den
        r == scaled % den
        error == FloatError(num, den)
        digits == IF 2 * r > den THEN q + 1
                  ELSE IF 2 * r < den THEN q
                  ELSE IF error > 0 THEN q + 1
                  ELSE IF error < 0 THEN q
                  ELSE IF q % 2 = 0 THEN q ELSE q + 1
    IN [digits |-> digits, decimals |-> decimals]

\* the order built at lines 179-186 with what line 204 or 208 returned for it
place_order(asset_id, is_buy, price, size, response) ==
    [a |-> asset_id, b |-> is_buy, p |-> price, s |-> size,
     response |-> response]

\* the order _emergency_close submits, and whether its return value is truthy
emergency_close_SameSide(asset_id, size, is_buy, response) ==
    LET close_order == place_order(asset_id, is_buy, 0, size, response)
    IN [order |-> close_order, closed |-> response = "ok"]

emergency_close(asset_id, size, is_buy, response) ==
    LET close_order == place_order(asset_id, ~is_buy, 0, size, response)
    IN [order |-> close_order, closed |-> response = "ok"]

\* price=str(market.mark_price * (1 + self.max_slippage)), in thousandths
SpotLimitPrice(market) == market.mark_price * (1000 + max_slippage_milli)

\* price=str(market.mark_price * (1 - self.max_slippage)), in thousandths
PerpLimitPrice(market) == market.mark_price * (1000 - max_slippage_milli)

\* the dict stored at lines 161-167 (entry_time, the wall clock, is left out)
NewPosition(market, funding_rate) ==
    [funding_rate |-> funding_rate,
     mark_price |-> market.mark_price,
     amount |-> [num |-> position_size_usd, den |-> market.mark_price],
     market |-> market.symbol]

\* spot_order.get('status') raises when _place_order returned None (line 142)
GetRaises(response) == response = "none"

\* line 142: spot_order.get('status') == 'ok'
SpotAccepted_NoCheck(spot_response) == TRUE

SpotAccepted(spot_response) == spot_response = "ok"

\* line 154: perp_order.get('status') == 'ok'
PerpAccepted_NoCheck(perp_response) == TRUE

PerpAccepted(perp_response) == perp_response = "ok"

\* (variant: the position is recorded as soon as the spot leg is accepted)
execute_funding_arb_RecordsEarly(positions, market, funding_rate, spot_response, perp_response, close_response) ==
    IF market.mark_price = 0
    THEN [orders |-> << >>, positions |-> positions, result |-> FALSE]
    ELSE
    LET formatted_amount ==
            FormatFixed(position_size_usd, market.mark_price,
                        market.size_decimals)
        spot_order == place_order(market.spot_asset_id, TRUE,
                                  SpotLimitPrice(market), formatted_amount,
                                  spot_response)
        perp_order == place_order(market.perp_asset_id, FALSE,
                                  PerpLimitPrice(market), formatted_amount,
                                  perp_response)
        close == emergency_close(market.spot_asset_id, formatted_amount, TRUE,
                                 close_response)
        recorded == Put(positions, market.symbol,
                        NewPosition(market, funding_rate))
    IN IF GetRaises(spot_response) \/ ~SpotAccepted(spot_response)
       THEN [orders |-> <<spot_order>>, positions |-> positions,
             result |-> FALSE]
       ELSE IF GetRaises(perp_response)
       THEN [orders |-> <<spot_order, perp_order>>, positions |-> recorded,
             result |-> FALSE]
       ELSE IF ~PerpAccepted(perp_response)
       THEN [orders |-> <<spot_order, perp_order, close.order>>,
             positions |-> recorded, result |-> FALSE]
       ELSE [orders |-> <<spot_order, perp_order>>, positions |-> recorded,
             result |-> TRUE]

\* One call: the orders it submitted in order, the ledger it leaves, and the
\* value it returns.  A mark price of 0 raises at line 127 and a response of
\* None raises at line 142 or 154; line 174 then returns False.
execute_funding_arb(positions, market, funding_rate, spot_response, perp_response, close_response) ==
    IF market.mark_price = 0
    THEN [orders |-> << >>, positions |-> positions, result |-> FALSE]
    ELSE
    LET formatted_amount ==
            FormatFixed(position_size_usd, market.mark_price,
                        market.size_decimals)
        spot_order == place_order(market.spot_asset_id, TRUE,
                                  SpotLimitPrice(market), formatted_amount,
                                  spot_response)
        perp_order == place_order(market.perp_asset_id, FALSE,
                                  PerpLimitPrice(market), formatted_amount,
                                  perp_response)
        close == emergency_close(market.spot_asset_id, formatted_amount, TRUE,
                                 close_response)
    IN IF GetRaises(spot_response) \/ ~SpotAccepted(spot_response)
       THEN [orders |-> <<spot_order>>, positions |-> positions,
             result |-> FALSE]
       ELSE IF GetRaises(perp_response)
       THEN [orders |-> <<spot_order, perp_order>>, positions |-> positions,
             result |-> FALSE]
       ELSE IF ~PerpAccepted(perp_response)
       THEN [orders |-> <<spot_order, perp_order, close.order>>,
             positions |-> positions, result |-> FALSE]
       ELSE [orders |-> <<spot_order, perp_order>>,
             positions |-> Put(positions, market.symbol,
                               NewPosition(market, funding_rate)),
             result |-> TRUE]

----------------------------------------------------------------------------
(* Control Loop: main (lines 247-293) *)

\* line 270
Qualifies_Signed(opp) == opp.funding_rate >= min_funding_rate

Qualifies(opp) == Abs(opp.funding_rate) >= min_funding_rate

\* line 271
NotHeld_NoCheck(opp, positions) == TRUE

\* (variant: the ledger is looked at once per cycle, before the for loop, so
\* the positions this cycle's calls recorded are not seen)
NotHeld_StartOfCycle(opp, positions) ==
    opp.symbol \notin
        (DOMAIN positions
             \ { opportunities[attempted[k]].symbol :
                     k \in 1..Len(attempted) })

NotHeld(opp, positions) == opp.symbol \notin DOMAIN positions

\* what the exchange accepted of one call's orders: the buys answered "ok"
\* less the sells answered "ok"
RECURSIVE NetAccepted(_)
NetAccepted(orders) ==
    IF orders = << >> THEN 0
    ELSE NetAccepted(Tail(orders))
             + (IF Head(orders).response # "ok" THEN 0
                ELSE IF Head(orders).b THEN 1 ELSE -1)

NoCall ==
    [made |-> FALSE, returned |-> FALSE, symbol |-> << >>,
     funding_rate |-> 0, market |-> Market(<< >>, 0, 0, 0),
     orders |-> << >>, result |-> FALSE]

Init ==
    /\ pc = "startup"
    /\ markets = EmptyDict
    /\ active_positions = EmptyDict
    /\ opportunities = << >>
    /\ cursor = 1
    /\ attempted = << >>
    /\ call = NoCall
    /\ feed_status = "none"
    /\ startup_env \in StartupEnvs
    /\ snapshot = << >>
    /\ feed_called = FALSE
    /\ waited = 0
    /\ exposure = EmptyDict

\* line 249: the constructor returns with the catalog built
Startup ==
    /\ pc = "startup"
    /\ CredentialsSet(startup_env)
    /\ CatalogAvailable(startup_env)
    /\ markets' = initialize_markets(startup_env.perp, startup_env.spot)
    /\ exposure' = [symbol \in DOMAIN markets' |-> 0]
    /\ pc' = "fetch"
    /\ UNCHANGED <<active_positions, opportunities, cursor, attempted, call,
                   feed_status, startup_env, snapshot, feed_called, waited>>

\* line 249: the constructor raises (missing credentials at line 42, or a
\* catalog request failing at line 58 or 61, re-raised at lines 86 and 293)
StartupFails ==
    /\ pc = "startup"
    /\ ~(CredentialsSet(startup_env) /\ CatalogAvailable(startup_env))
    /\ pc' = "fatal"
    /\ UNCHANGED <<markets, active_positions, opportunities, cursor,
                   attempted, call, feed_status, startup_env, snapshot,
                   feed_called, waited, exposure>>

\* What one 'metaAndAssetCtxs' request does: it fails, or it returns a snapshot
FeedAnswers ==
    {[transport_ok |-> FALSE, contexts |-> << >>]}
        \cup {[transport_ok |-> TRUE, contexts |-> s] : s \in Snapshots}

\* lines 257-262: one feed call, then the branch on an empty result
FetchOpportunities ==
    /\ pc = "fetch"
    /\ \E answer \in FeedAnswers :
           LET got == get_funding_opportunities(markets, answer.transport_ok,
                                                answer.contexts)
           IN /\ markets' = got.markets
              /\ opportunities' = got.opportunities
              /\ feed_status' = got.status
              /\ snapshot' = answer.contexts
              /\ pc' = IF got.opportunities = << >> THEN "sleep_empty"
                       ELSE "scan"
    /\ cursor' = 1
    /\ attempted' = << >>
    /\ call' = NoCall
    /\ feed_called' = TRUE
    /\ waited' = 0
    /\ UNCHANGED <<active_positions, startup_env, exposure>>

\* lines 269-282: one iteration of the for loop.  With counted, the step
\* also keeps the exchange's book of what it accepted, and the exchange
\* accepts no more than MaxExposure unhedged buys of a symbol
ConsiderOpportunityStep(counted) ==
    /\ pc = "scan"
    /\ cursor <= Len(opportunities)
    /\ LET opp == opportunities[cursor]
           market == markets[opp.symbol]
       IN IF Qualifies(opp) /\ NotHeld(opp, active_positions)
          THEN \E spot_response \in Responses, perp_response \in Responses,
                  close_response \in Responses :
                   LET done == execute_funding_arb(
                                   active_positions, market, opp.funding_rate,
                                   spot_response, perp_response,
                                   close_response)
                       held == exposure[opp.symbol] + NetAccepted(done.orders)
                   IN /\ counted => held <= MaxExposure
                      /\ exposure' = IF counted
                                     THEN [exposure EXCEPT ![opp.symbol] = held]
                                     ELSE exposure
                      /\ active_positions' = done.positions
                      /\ call' = [made |-> TRUE, returned |-> TRUE,
                                  symbol |-> opp.symbol,
                                  funding_rate |-> opp.funding_rate,
                                  market |-> market, orders |-> done.orders,
                                  result |-> done.result]
                      /\ attempted' = Append(attempted, cursor)
          ELSE UNCHANGED <<active_positions, call, attempted, exposure>>
    /\ cursor' = cursor + 1
    /\ pc' = IF cursor = Len(opportunities) THEN "sleep" ELSE "scan"
    /\ UNCHANGED <<markets, opportunities, feed_status, startup_env, snapshot,
                   feed_called, waited>>

ConsiderOpportunity == ConsiderOpportunityStep(FALSE)

ConsiderOpportunityCounted == ConsiderOpportunityStep(TRUE)

\* line 261 and the continue of line 262; the iteration's locals and the
\* record of its calls are dead once the wait is over
SleepNoOpportunities ==
    /\ pc = "sleep_empty"
    /\ pc' = "fetch"
    /\ waited' = waited + SleepInterval
    /\ opportunities' = << >>
    /\ cursor' = 1
    /\ attempted' = << >>
    /\ call' = NoCall
    /\ feed_status' = "none"
    /\ snapshot' = << >>
    /\ UNCHANGED <<markets, active_positions, startup_env, feed_called,
                   exposure>>

\* (variant: the cycle ends without the wait of line 287)
SleepEndOfCycle_NoWait ==
    /\ pc = "sleep"
    /\ pc' = "fetch"
    /\ opportunities' = << >>
    /\ cursor' = 1
    /\ attempted' = << >>
    /\ call' = NoCall
    /\ feed_status' = "none"
    /\ snapshot' = << >>
    /\ UNCHANGED <<markets, active_positions, startup_env, feed_called,
                   waited, exposure>>

\* line 287, likewise
SleepEndOfCycle ==
    /\ pc = "sleep"
    /\ pc' = "fetch"
    /\ waited' = waited + SleepInterval
    /\ opportunities' = << >>
    /\ cursor' = 1
    /\ attempted' = << >>
    /\ call' = NoCall
    /\ feed_status' = "none"
    /\ snapshot' = << >>
    /\ UNCHANGED <<markets, active_positions, startup_env, feed_called,
                   exposure>>

\* lines 289-290: KeyboardInterrupt arrives inside get_funding_opportunities,
\* in the loop of lines 97-113: after some of the contexts, or between the
\* two assignments of lines 105 and 106.  contexts is the part of the answer
\* the loop got to, and the snapshot kept.
InterruptInFetch ==
    /\ pc = "fetch"
    /\ \E contexts \in Snapshots, half \in BOOLEAN :
           LET reached == Len(contexts)
               processed == IF half THEN reached - 1 ELSE reached
               done == ProcessContexts(markets,
                                       SubSeq(contexts, 1, processed),
                                       1, << >>)
           IN /\ reached >= 1
              /\ done.status = "ok"
              /\ snapshot' = contexts
              /\ IF half
                 THEN LET ctx == contexts[reached]
                      IN /\ ctx.name \in DOMAIN markets
                         /\ ctx.funding_ok
                         /\ markets' =
                                Put(done.markets, ctx.name,
                                    UpdateFunding(done.markets[ctx.name],
                                                  ctx))
                 ELSE markets' = done.markets
    /\ feed_status' = "interrupted"
    /\ feed_called' = TRUE
    /\ waited' = 0
    /\ pc' = "stopped"
    /\ UNCHANGED <<active_positions, opportunities, cursor, attempted, call,
                   startup_env, exposure>>

\* lines 289-290: KeyboardInterrupt arrives inside execute_funding_arb.  No
\* except Exception (lines 172, 206, 220, 284) catches it, so the call ends
\* where it is: with the first sent of the orders the call would have
\* submitted at the exchange (the last of them answered or not yet read),
\* and with the position recorded only if line 161 was passed.  An interrupt
\* before the first order leaves what Interrupt leaves.
InterruptInCallStep(counted) ==
    /\ pc = "scan"
    /\ cursor <= Len(opportunities)
    /\ LET opp == opportunities[cursor]
           market == markets[opp.symbol]
       IN /\ Qualifies(opp)
          /\ NotHeld(opp, active_positions)
          /\ \E spot_response \in Responses, perp_response \in Responses,
                close_response \in Responses :
                 LET done == execute_funding_arb(
                                 active_positions, market, opp.funding_rate,
                                 spot_response, perp_response, close_response)
                 IN \E sent \in 1..Len(done.orders), recorded \in BOOLEAN :
                        LET orders == SubSeq(done.orders, 1, sent)
                            held == exposure[opp.symbol] + NetAccepted(orders)
                        IN /\ recorded =>
                                  (sent = Len(done.orders) /\ done.result)
                           /\ counted => held <= MaxExposure
                           /\ exposure' =
                                  IF counted
                                  THEN [exposure EXCEPT ![opp.symbol] = held]
                                  ELSE exposure
                           /\ active_positions' =
                                  IF recorded THEN done.positions
                                  ELSE active_positions
                           /\ call' = [made |-> TRUE, returned |-> FALSE,
                                       symbol |-> opp.symbol,
                                       funding_rate |-> opp.funding_rate,
                                       market |-> market, orders |-> orders,
                                       result |-> FALSE]
                           /\ attempted' = Append(attempted, cursor)
    /\ pc' = "stopped"
    /\ UNCHANGED <<markets, opportunities, cursor, feed_status, startup_env,
                   snapshot, feed_called, waited>>

InterruptInCall == InterruptInCallStep(FALSE)

InterruptInCallCounted == InterruptInCallStep(TRUE)

\* lines 289-290: KeyboardInterrupt ends main
Interrupt ==
    /\ pc \in {"startup", "fetch", "scan", "sleep_empty", "sleep"}
    /\ pc' = "stopped"
    /\ UNCHANGED <<markets, active_positions, opportunities, cursor,
                   attempted, call, feed_status, startup_env, snapshot,
                   feed_called, waited, exposure>>

Next ==
    \/ Startup
    \/ StartupFails
    \/ FetchOpportunities
    \/ ConsiderOpportunity
    \/ SleepNoOpportunities
    \/ SleepEndOfCycle
    \/ Interrupt
    \/ InterruptInFetch
    \/ InterruptInCall

Spec == Init /\ [][Next]_vars

\* The runs with the exchange's book kept: those of a catalog with the one
\* market BTC
ExposureEnvs ==
    { env \in StartupEnvs :
          \A i \in 1..Len(env.perp) : env.perp[i].name # ETH }

ExposureInit == Init /\ startup_env \in ExposureEnvs

ExposureNext ==
    \/ Startup
    \/ StartupFails
    \/ FetchOpportunities
    \/ ConsiderOpportunityCounted
    \/ SleepNoOpportunities
    \/ SleepEndOfCycle
    \/ Interrupt
    \/ InterruptInFetch
    \/ InterruptInCallCounted

ExposureSpec == ExposureInit /\ [][ExposureNext]_vars

\* The catalog runs: the constructor alone, over every startup of CatalogEnvs
CatalogInit ==
    /\ pc = "startup"
    /\ markets = EmptyDict
    /\ active_positions = EmptyDict
    /\ opportunities = << >>
    /\ cursor = 1
    /\ attempted = << >>
    /\ call = NoCall
    /\ feed_status = "none"
    /\ startup_env \in CatalogEnvs
    /\ snapshot = << >>
    /\ feed_called = FALSE
    /\ waited = 0
    /\ exposure = EmptyDict

CatalogNext ==
    \/ Startup
    \/ StartupFails

CatalogSpec == CatalogInit /\ [][CatalogNext]_vars

\* The event loop runs main's coroutine whenever it can continue, and every
\* asyncio.sleep(60) ends.  The requests of the feed (line 233) and of the
\* orders (line 198) are made without a timeout: nothing obliges the
\* exchange to answer them, nor the environment to interrupt.
LiveSpec ==
    /\ Spec
    /\ WF_vars(SleepNoOpportunities)
    /\ WF_vars(SleepEndOfCycle)

----------------------------------------------------------------------------
(* Properties of the hedge execution and of the control loop *)

LoopPcs == {"fetch", "scan", "sleep_empty", "sleep"}

\* the orders of the last call, by the instrument and side they were sent to
IsSpotBuy(order, market) == order.a = market.spot_asset_id /\ order.b
IsPerpSell(order, market) == order.a = market.perp_asset_id /\ ~order.b

\* a step in which execute_funding_arb was called
CallStep == attempted' # attempted /\ call'.made

\* C1: a symbol enters active_positions only in a step that is an
\* execute_funding_arb call for that symbol whose spot order and perp order
\* were both answered "ok" (a call that returns then returns True); the
\* ledger starts empty and no other step adds to it.
C1_LedgerGainsOnlyAfterBothLegsOk ==
    [][\A s \in DOMAIN active_positions' :
          s \notin DOMAIN active_positions =>
              /\ CallStep
              /\ call'.symbol = s
              /\ call'.returned => call'.result
              /\ Len(call'.orders) = 2
              /\ IsSpotBuy(call'.orders[1], call'.market)
              /\ call'.orders[1].response = "ok"
              /\ IsPerpSell(call'.orders[2], call'.market)
              /\ call'.orders[2].response = "ok"]_vars

C1_Witness ==
    /\ call.made
    /\ call.result
    /\ call.symbol \in DOMAIN active_positions
    /\ Cardinality(DOMAIN active_positions) = 2

\* C2: in every call whose spot order was answered "ok" and whose perp order
\* was not accepted, be it answered with another status or not answered at
\* all, a closing order on the spot instrument is submitted before the call
\* returns.
C2_SingleLegAlwaysUnwound ==
    (/\ call.made
     /\ call.returned
     /\ Len(call.orders) >= 2
     /\ call.orders[1].response = "ok"
     /\ call.orders[2].response # "ok")
        => /\ Len(call.orders) = 3
           /\ call.orders[3].a = call.market.spot_asset_id
           /\ ~call.orders[3].b

\* a call that ran to its return, whose spot order was answered "ok" and
\* whose perp order was answered with another status
PerpRejected(c) ==
    /\ c.made
    /\ c.returned
    /\ Len(c.orders) >= 2
    /\ c.orders[1].response = "ok"
    /\ c.orders[2].response = "err"

\* C3: when the spot order is answered "ok" and the perp order is answered
\* with another status, the call, unless the process is interrupted inside
\* it, submits exactly one more order: a sell on the
\* spot instrument at price 0 for the formatted quantity of the spot leg; it
\* returns False and leaves the ledger as it was, without the symbol, whatever
\* the answer to the closing order.
C3_RejectedPerpUnwindsSpotOnce ==
    /\ [](PerpRejected(call) =>
            /\ Len(call.orders) = 3
            /\ IsSpotBuy(call.orders[1], call.market)
            /\ call.orders[3].a = call.market.spot_asset_id
            /\ call.orders[3].b = FALSE
            /\ call.orders[3].p = 0
            /\ call.orders[3].s = call.orders[1].s
            /\ call.orders[3].s =
                   FormatFixed(position_size_usd, call.market.mark_price,
                               call.market.size_decimals)
            /\ ~call.result)
    /\ [][(CallStep /\ PerpRejected(call')) =>
            /\ active_positions' = active_positions
            /\ call'.symbol \notin DOMAIN active_positions']_vars

C3_Witness ==
    /\ PerpRejected(call)
    /\ Len(call.orders) = 3
    /\ call.orders[3].response # "ok"
    /\ call.orders[3].s.digits > 0

\* C4: when the spot order is not answered "ok" (another status, or no answer
\* at all) the call submits nothing else, records no position and returns
\* False; in every call an order on the perp instrument is the second order,
\* sent after a first order, the spot buy, that was answered "ok".
C4_NoPerpWithoutAcceptedSpot ==
    /\ [](call.made =>
            /\ (Len(call.orders) >= 1 =>
                    IsSpotBuy(call.orders[1], call.market))
            /\ ((Len(call.orders) >= 1 /\ call.orders[1].response # "ok") =>
                    Len(call.orders) = 1 /\ ~call.result)
            /\ \A i \in 1..Len(call.orders) :
                   call.orders[i].a = call.market.perp_asset_id =>
                       i = 2 /\ call.orders[1].response = "ok")
    /\ [][(/\ CallStep
           /\ Len(call'.orders) >= 1
           /\ call'.orders[1].response # "ok") =>
              active_positions' = active_positions]_vars

C4_Witness ==
    /\ call.made
    /\ call.returned
    /\ Len(call.orders) = 1
    /\ call.orders[1].response = "none"
    /\ ~call.result

\* C5: execute_funding_arb is never called for a symbol that is in
\* active_positions at the moment of the call, be it recorded in an earlier
\* cycle or earlier in the same cycle, and the ledger holds one position per
\* symbol, stored under the symbol of its market.
C5_NoSecondHedgeForHeldSymbol ==
    /\ [][CallStep =>
            /\ call'.symbol = opportunities[cursor].symbol
            /\ call'.symbol \notin DOMAIN active_positions]_vars
    /\ [](\A s \in DOMAIN active_positions : active_positions[s].market = s)

\* a snapshot listed one symbol twice: the call for its first opportunity
\* recorded the position, and its second opportunity, which qualifies too,
\* was passed in the same cycle without a call
C5_Witness ==
    /\ pc \in {"scan", "sleep"}
    /\ \E i, j \in 1..(cursor - 1) :
           /\ i < j
           /\ j <= Len(opportunities)
           /\ opportunities[i].symbol = opportunities[j].symbol
           /\ opportunities[i].symbol \in DOMAIN active_positions
           /\ \E k \in 1..Len(attempted) : attempted[k] = i
           /\ \A k \in 1..Len(attempted) : attempted[k] # j
           /\ Qualifies(opportunities[j])
           /\ opportunities[j].mark_price # 0

\* C6: when the executed opportunity has a negative funding rate the hedge is
\* inverted: the spot order is a sell and the perp order is a buy.
C6_NegativeFundingInvertsHedge ==
    (call.made /\ call.funding_rate < 0) =>
        \A i \in 1..Len(call.orders) :
            /\ (i = 1 => (call.orders[i].a = call.market.spot_asset_id
                          /\ ~call.orders[i].b))
            /\ (i = 2 => (call.orders[i].a = call.market.perp_asset_id
                          /\ call.orders[i].b))

\* the opportunities of a cycle are in non-increasing order of absolute rate
Descending(opps) ==
    \A i, j \in 1..Len(opps) :
        i < j => Abs(opps[i].funding_rate) >= Abs(opps[j].funding_rate)

\* C7: a cycle with a non-empty feed result considers its opportunities one
\* by one in the order of the list, which is in descending order of absolute
\* rate, and calls execute_funding_arb for an opportunity exactly when its
\* absolute rate is at least min_funding_rate and its symbol is not in the
\* ledger at that moment, once; whatever the call returns, the loop goes on
\* with the next opportunity and the cycle ends only after the last one.  The
\* rule does not look at earlier cycles, so a symbol whose attempt failed is
\* attempted again whenever it qualifies.
C7_AttemptsExactlyTheQualifying ==
    /\ [](pc \in {"scan", "sleep"} =>
            /\ opportunities # << >>
            /\ Descending(opportunities)
            /\ (pc = "sleep" <=> cursor = Len(opportunities) + 1)
            /\ \A k \in 1..Len(attempted) :
                   /\ attempted[k] < cursor
                   /\ Abs(opportunities[attempted[k]].funding_rate)
                          >= min_funding_rate
                   /\ \A m \in 1..(k - 1) : attempted[m] < attempted[k])
    /\ [][(pc = "fetch" /\ pc' = "scan") =>
              cursor' = 1 /\ attempted' = << >>]_vars
    /\ [][(pc = "scan" /\ pc' \in {"scan", "sleep"}) =>
              LET opp == opportunities[cursor]
                  due == /\ Abs(opp.funding_rate) >= min_funding_rate
                         /\ opp.symbol \notin DOMAIN active_positions
              IN /\ opportunities' = opportunities
                 /\ cursor' = cursor + 1
                 /\ attempted' =
                        IF due THEN Append(attempted, cursor) ELSE attempted
                 /\ due => (call'.made /\ call'.symbol = opp.symbol
                            /\ call'.funding_rate = opp.funding_rate)
                 /\ ~due => (call' = call
                             /\ active_positions' = active_positions)]_vars

\* both opportunities of a cycle were attempted although the first attempt
\* failed, and the second opportunity has the smaller absolute rate
C7_Witness ==
    /\ pc = "sleep"
    /\ attempted = <<1, 2>>
    /\ opportunities[1].symbol \notin DOMAIN active_positions
    /\ Abs(opportunities[1].funding_rate) > Abs(opportunities[2].funding_rate)
    /\ call.made
    /\ call.symbol = opportunities[2].symbol

\* C8: no hedge is attempted for a market whose absolute annualized funding
\* rate is below the documented minimum of 5 %.
C8_NoAttemptBelowFivePercent ==
    call.made => Abs(call.funding_rate) >= DocumentedMinimum

\* C9: once the loop has started, only an interrupt ends it: no step leaves
\* the loop otherwise, whatever failed in the cycle, and every cycle that has
\* got its feed result is followed by the feed call that starts the next.
C9_LoopNeverTerminates ==
    /\ [][(pc \in LoopPcs) => (pc' \in LoopPcs \cup {"stopped"})]_vars
    /\ (pc \in {"scan", "sleep_empty", "sleep"}) ~> (pc \in {"fetch", "stopped"})

FeedFailed == feed_status \in {"transport_error", "parse_error"}

\* C10: when the quote fetch fails in transport or in parsing, the feed
\* returns an empty list and the loop takes the no-opportunities branch: no
\* execute_funding_arb call and so no order in that cycle, the ledger as it
\* was, then the wait and the next feed call.
C10_FailedFetchSkipsTheCycle ==
    /\ [](FeedFailed =>
            /\ opportunities = << >>
            /\ pc \in {"sleep_empty", "stopped"}
            /\ ~call.made
            /\ call.orders = << >>
            /\ attempted = << >>)
    /\ [][FeedFailed' => active_positions' = active_positions]_vars
    /\ [][(FeedFailed /\ pc = "sleep_empty" /\ pc' # "stopped") =>
              pc' = "fetch"]_vars

\* the fetch failed on an unparsable quote after an earlier quote of the same
\* snapshot had already been taken in
C10_Witness ==
    /\ feed_status = "parse_error"
    /\ pc = "sleep_empty"
    /\ \E s \in DOMAIN markets : Abs(markets[s].funding_rate) >= min_funding_rate
    /\ \E s \in DOMAIN markets : s \notin DOMAIN active_positions

----------------------------------------------------------------------------
(* Market Catalog build *)

\* the text of a spot name before its first "/" (the whole name without one)
BaseName(name) ==
    LET cut == { k \in 1..Len(name) : name[k] = "/" } \cup {Len(name) + 1}
        first == CHOOSE k \in cut : \A m \in cut : k <= m
    IN SubSeq(name, 1, first - 1)

SpotsOf(spots, symbol) ==
    { j \in 1..Len(spots) : BaseName(spots[j].name) = symbol }

PositionsOf(perps, symbol) ==
    { i \in 1..Len(perps) : perps[i].name = symbol }

\* C11: once the catalog is built it holds exactly one Market for each
\* underlying of the perpetual list whose name is the base name of some spot
\* instrument, and none for the others; the Market's perp id is the
\* underlying's position in the perpetual list counted from 0 (the last
\* position of a name listed twice), its spot id is 10000 + the index of the
\* first spot instrument in list order with that base name, its precision is
\* the underlying's szDecimals, and its quotes are still 0.
C11_CatalogHoldsFirstSpotMatch ==
    (pc = "fetch") =>
        LET perps == startup_env.perp
            spots == startup_env.spot
        IN /\ DOMAIN markets =
                  { perps[i].name : i \in 1..Len(perps) }
                      \cap { BaseName(spots[j].name) : j \in 1..Len(spots) }
           /\ \A symbol \in DOMAIN markets :
                  LET i == CHOOSE x \in PositionsOf(perps, symbol) :
                               \A y \in PositionsOf(perps, symbol) : y <= x
                      j == CHOOSE x \in SpotsOf(spots, symbol) :
                               \A y \in SpotsOf(spots, symbol) : x <= y
                  IN markets[symbol] =
                         [symbol |-> symbol,
                          perp_asset_id |-> i - 1,
                          spot_asset_id |-> 10000 + spots[j].index,
                          funding_rate |-> 0,
                          mark_price |-> 0,
                          size_decimals |-> perps[i].szDecimals]

\* a catalog built from a spot list with two instruments of one base name
\* and different indexes, and a perpetual list with an underlying that has
\* no spot counterpart
C11_Witness ==
    /\ pc = "fetch"
    /\ \E symbol \in DOMAIN markets :
           \E j, k \in SpotsOf(startup_env.spot, symbol) :
               j < k /\ startup_env.spot[j].index # startup_env.spot[k].index
    /\ \E i \in 1..Len(startup_env.perp) :
           startup_env.perp[i].name \notin DOMAIN markets

----------------------------------------------------------------------------
(* Market Data Feed and ranking *)

\* the last context of the snapshot that lists the symbol: the one whose
\* quote the symbol's Market holds after the feed call
PositionIn(snap, symbol) ==
    CHOOSE i \in 1..Len(snap) :
        /\ snap[i].name = symbol
        /\ \A j \in (i + 1)..Len(snap) : snap[j].name # symbol

\* the opportunity lines 108-113 append for a context
OpportunityOf(ctx) ==
    [symbol |-> ctx.name, funding_rate |-> ctx.funding * 365 * 100,
     mark_price |-> ctx.markPx]

\* C12: whatever the order of the snapshot a feed call received, the
\* opportunities it returned are exactly the snapshot's contexts whose
\* instrument is in the catalog, each once with its annualized rate and its
\* price, in non-increasing absolute rate, those of equal absolute rate in
\* their snapshot order; so the sequence is a function of the catalog and
\* the snapshot alone, and a repeated call with the same input returns it
\* again.
C12_RankedStableDetermined ==
    (feed_status = "ok") =>
        LET listed == { i \in 1..Len(snapshot) :
                            snapshot[i].name \in DOMAIN markets }
            n == Len(opportunities)
        IN /\ n = Cardinality(listed)
           /\ \E from \in [1..n -> listed] :
                  /\ \A k, l \in 1..n : k # l => from[k] # from[l]
                  /\ \A k \in 1..n :
                         opportunities[k] = OpportunityOf(snapshot[from[k]])
                  /\ \A k, l \in 1..n :
                         k < l =>
                             /\ Abs(opportunities[k].funding_rate)
                                    >= Abs(opportunities[l].funding_rate)
                             /\ Abs(opportunities[k].funding_rate)
                                    = Abs(opportunities[l].funding_rate)
                                => from[k] < from[l]

\* a feed call that returned two opportunities of equal absolute rate and
\* opposite sign
C12_Witness ==
    /\ feed_status = "ok"
    /\ Len(opportunities) = 2
    /\ opportunities[1].funding_rate = -opportunities[2].funding_rate
    /\ opportunities[1].funding_rate # 0

----------------------------------------------------------------------------
(* Startup failure *)

\* C13: in a run where the perpetual list or the spot list cannot be
\* retrieved at startup, the process is either still in the constructor or
\* has ended (on the fatal path, or interrupted before that): the loop is
\* never entered, the feed is never called, no hedge is attempted and no
\* order is submitted.
C13_CatalogFailureIsFatal ==
    (~startup_env.perp_ok \/ ~startup_env.spot_ok) =>
        /\ pc \in {"startup", "fatal", "stopped"}
        /\ ~feed_called
        /\ ~call.made
        /\ attempted = << >>
        /\ markets = EmptyDict
        /\ active_positions = EmptyDict

\* a run with credentials whose spot list request failed has ended
C13_Witness ==
    /\ pc = "fatal"
    /\ startup_env.credentials
    /\ startup_env.perp_ok
    /\ ~startup_env.spot_ok

----------------------------------------------------------------------------
(* Return value and frame of one hedge call *)

BothLegsOk(orders) ==
    /\ Len(orders) >= 2
    /\ orders[1].response = "ok"
    /\ orders[2].response = "ok"

\* C14: a call of execute_funding_arb ends in no other way than by
\* returning a boolean to the loop, which goes on, or by the interrupt that
\* stops the process; it returns True exactly when both legs were answered
\* "ok", which is exactly when the call added a Position for its symbol to
\* the ledger; a call that returns False leaves the ledger as it was, and a
\* call on a market whose mark price is 0 returns False without submitting
\* an order.
C14_ResultIffBothLegsAndRecorded ==
    [][CallStep =>
          /\ call'.returned \/ pc' = "stopped"
          /\ \A s \in DOMAIN active_positions :
                 /\ s \in DOMAIN active_positions'
                 /\ active_positions'[s] = active_positions[s]
          /\ call'.returned =>
                 /\ pc' \in LoopPcs
                 /\ call'.result \in BOOLEAN
                 /\ call'.result = BothLegsOk(call'.orders)
                 /\ call'.result =
                        (/\ call'.symbol \notin DOMAIN active_positions
                         /\ call'.symbol \in DOMAIN active_positions')
                 /\ ~call'.result => active_positions' = active_positions
                 /\ (call'.market.mark_price = 0) =>
                        (call'.orders = << >> /\ ~call'.result)]_vars

\* a call on a market whose mark price is 0 has returned False
C14_Witness ==
    /\ call.made
    /\ call.returned
    /\ call.market.mark_price = 0
    /\ call.orders = << >>
    /\ ~call.result
    /\ pc \in LoopPcs

----------------------------------------------------------------------------
(* Idle wait between feed calls *)

\* C15: a feed call that is not the first of the run is made after exactly
\* one wait of 60 since the feed call before it, whether that cycle found no
\* opportunity or went through its opportunities, and no time is waited
\* while a cycle is at work. (An exception caught at line 284 would reach the
\* same wait of line 287; no step of the loop body raises one.)
C15_OneWaitBetweenFeedCalls ==
    /\ [][(pc = "fetch" /\ feed_called /\ pc' \in {"scan", "sleep_empty"})
             => (waited = 60 /\ waited' = 0)]_vars
    /\ [][(pc \in {"scan", "sleep_empty", "sleep"})
             => (waited = 0 /\ waited' \in {0, 60})]_vars

\* the feed has just been called again, after a cycle that opened a hedge
\* and the wait that followed it
C15_Witness ==
    /\ pc \in {"scan", "sleep_empty"}
    /\ cursor = 1
    /\ attempted = << >>
    /\ waited = 0
    /\ feed_called
    /\ active_positions # EmptyDict

----------------------------------------------------------------------------
(* Position Ledger *)

\* C16: no step removes a symbol from active_positions or changes the entry
\* of a symbol that has one: the entry rate, entry mark price and amount of
\* a Position stay as first recorded.
C16_LedgerEntriesNeverChange ==
    [][\A s \in DOMAIN active_positions :
           /\ s \in DOMAIN active_positions'
           /\ active_positions'[s].funding_rate
                  = active_positions[s].funding_rate
           /\ active_positions'[s].mark_price = active_positions[s].mark_price
           /\ active_positions'[s].amount = active_positions[s].amount
           /\ active_positions'[s] = active_positions[s]]_vars

\* a held symbol is offered again in a later cycle at another rate and
\* price, qualifying, and the loop has gone past it
C16_Witness ==
    /\ pc \in {"scan", "sleep"}
    /\ cursor > 1
    /\ LET opp == opportunities[cursor - 1]
       IN /\ opp.symbol \in DOMAIN active_positions
          /\ Abs(opp.funding_rate) >= min_funding_rate
          /\ opp.mark_price # active_positions[opp.symbol].mark_price
          /\ opp.funding_rate # active_positions[opp.symbol].funding_rate
          /\ opp.mark_price # 0

----------------------------------------------------------------------------
(* Quantity and limit prices of the two legs *)

\* the mark price the feed call of this cycle left in the symbol's Market
CycleMarkPrice(symbol) == snapshot[PositionIn(snapshot, symbol)].markPx

\* C17: in every call that submits orders, the spot leg is a buy at the
\* cycle's mark price * 1.001 for 1000 / mark price rounded to the market's
\* size_decimals (no multiple of the last decimal is nearer; 1000 / 50000 at
\* 3 decimals is 0.020), and the perp leg, when it is submitted, is a sell
\* at the cycle's mark price * 0.999 for the identical size. Prices are in
\* thousandths, sizes in digits of the last decimal.
C17_LegsShareRoundedQuantity ==
    (call.made /\ call.orders # << >>) =>
        LET price == CycleMarkPrice(call.symbol)
            market == markets[call.symbol]
            spot == call.orders[1]
            scale == Pow10(market.size_decimals)
        IN /\ call.market = market
           /\ market.mark_price = price
           /\ spot.a = market.spot_asset_id
           /\ spot.b
           /\ spot.p = price * 1001
           /\ spot.s.decimals = market.size_decimals
           /\ 2 * Abs(spot.s.digits * price - 1000 * scale) <= price
           /\ (price = 50000 /\ market.size_decimals = 3)
                  => spot.s.digits = 20
           /\ Len(call.orders) >= 2 =>
                  /\ call.orders[2].a = market.perp_asset_id
                  /\ ~call.orders[2].b
                  /\ call.orders[2].p = price * 999
                  /\ call.orders[2].s = spot.s

\* both legs were submitted for 1000 / 60000 at 3 decimals: 0.017
C17_Witness ==
    /\ call.made
    /\ call.returned
    /\ Len(call.orders) >= 2
    /\ CycleMarkPrice(call.symbol) = 60000
    /\ call.orders[1].s = [digits |-> 17, decimals |-> 3]
    /\ call.orders[2].s = [digits |-> 17, decimals |-> 3]

----------------------------------------------------------------------------
(* What a Position records *)

\* C18: the Position a successful call records carries the quantity that
\* was submitted on both legs (the precision-rounded one) and the funding
\* rate and mark price the feed call of this cycle read for the market.
\* The amount is a fraction num / den, a size is digits / 10^decimals.
C18_PositionRecordsSubmittedQuantity ==
    (call.made /\ call.result) =>
        LET position == active_positions[call.symbol]
            quotes == { OpportunityOf(snapshot[i]) :
                            i \in { j \in 1..Len(snapshot) :
                                        snapshot[j].name = call.symbol } }
        IN /\ \E quote \in quotes :
                  position.funding_rate = quote.funding_rate
           /\ \E quote \in quotes : position.mark_price = quote.mark_price
           /\ \A k \in 1..2 :
                  position.amount.num * Pow10(call.orders[k].s.decimals)
                      = call.orders[k].s.digits * position.amount.den

----------------------------------------------------------------------------
(* Unhedged spot exposure *)

\* C19: for each symbol the accepted spot buys less the accepted perp sells
\* less the accepted unwind sells never exceed one.
C19_ExposureAtMostOne ==
    \A symbol \in DOMAIN exposure : exposure[symbol] <= 1

----------------------------------------------------------------------------
(* Frame of the feed refresh *)

InSnapshot(snap, symbol) == \E i \in 1..Len(snap) : snap[i].name = symbol

\* C20: once the catalog is built no step adds or removes a Market or
\* changes a Market's symbol, perp id, spot id or size_decimals; a Market's
\* funding rate or mark price changes only in a feed call whose snapshot
\* lists its symbol; and every opportunity of the cycle is for a symbol of
\* the catalog whose Market carries the opportunity's rate and price.
C20_RefreshTouchesOnlyListedQuotes ==
    /\ [][(pc # "startup") =>
             /\ DOMAIN markets' = DOMAIN markets
             /\ \A symbol \in DOMAIN markets :
                    /\ markets'[symbol].symbol = markets[symbol].symbol
                    /\ markets'[symbol].perp_asset_id
                           = markets[symbol].perp_asset_id
                    /\ markets'[symbol].spot_asset_id
                           = markets[symbol].spot_asset_id
                    /\ markets'[symbol].size_decimals
                           = markets[symbol].size_decimals
                    /\ markets'[symbol] # markets[symbol]
                           => /\ pc = "fetch"
                              /\ pc' \in {"scan", "sleep_empty", "stopped"}
                              /\ InSnapshot(snapshot', symbol)]_vars
    /\ [](\A k \in 1..Len(opportunities) :
              LET opp == opportunities[k]
              IN /\ opp.symbol \in DOMAIN markets
                 /\ markets[opp.symbol].symbol = opp.symbol
                 /\ markets[opp.symbol].funding_rate = opp.funding_rate
                 /\ markets[opp.symbol].mark_price = opp.mark_price)

====
